---- MODULE Spec2Model ----
(***************************************************************************)
(* Model of the two-stage cipher (Vigenere followed by affine) of          *)
(* cipher_core.py, of the three breakers of attack_tools.py and of the     *)
(* dispatch of attacks to worker threads in main.py.                       *)
(*                                                                         *)
(* A Python str is a sequence of character codes (ord values), so that     *)
(* str.upper, str.isalpha, ALPHABET.index and ord are computed as the code *)
(* computes them.  Characters are ASCII: on them str.isalpha is membership *)
(* in A-Z / a-z and str.upper changes a-z only.                            *)
(*                                                                         *)
(* A call's outcome is a record [err, val]: err = "" and val the returned  *)
(* str, or err the message of the ValueError raised and val empty.         *)
(***************************************************************************)
EXTENDS Integers, Sequences, FiniteSets, TLC

VARIABLES
    fn,         \* the cipher_core function called first ("" before any call)
    text,       \* its text argument
    key,        \* its key argument
    keep,       \* its keep_nonletters argument
    a,          \* its affine a argument
    b,          \* its affine b argument
    ret,        \* its outcome
    fn2,        \* the function then called on ret.val ("" if none)
    key2,       \* the key of that second call
    ret2,       \* the outcome of the second call
    cipher,           \* known_plaintext_attack: its ciphertext argument
    known,            \* its known_plaintext argument
    pc,               \* where the attack stands: "idle", "start", "loop", "finish", "done"
    c_clean,          \* its local c_clean
    p_clean,          \* its local p_clean
    results,          \* its local results
    attempts,         \* its local attempts
    ia,               \* the position in valid_as of the loop variable a (1-based)
    ib,               \* the loop variable b
    output,           \* what the attack returned
    attack,           \* the attack_tools function running ("" when none)
    max_vig_keylen,   \* break_combined_frequency: its max_vig_keylen argument
    top_candidates,   \* break_combined_frequency: its top_candidates argument
    threads,          \* main.py: the attack threads started, in the order of dispatch
    after_queue,      \* the callbacks posted with self.after(0, ...), oldest first
    progress,         \* whether the progress bar is running
    atk_output,       \* the content of the attack output field
    messagebox        \* the message of the last dialog shown ("" if none)

cipherVars == <<fn, text, key, keep, a, b, ret, fn2, key2, ret2>>

kpaVars == <<cipher, known, pc, c_clean, p_clean, results, attempts,
             ia, ib, output>>

bcfVars == <<attack, max_vig_keylen, top_candidates>>

guiVars == <<threads, after_queue, progress, atk_output, messagebox>>

vars == <<cipherVars, kpaVars, bcfVars, guiVars>>

----------------------------------------------------------------------------
(* Bounds of the model *)

\* longest text drawn for the Vigenere and combined calls
MaxLen == 3
\* longest key drawn, the keys "KEY" and "k-Ey" aside
MaxKeyLen == 1
\* longest text drawn for the affine calls
MaxAffLen == 2
\* mod_inverse is called on -MaxA .. MaxA
MaxA == 40
\* the affine calls draw a from -AExtra .. 26 + AExtra
AExtra == 1

----------------------------------------------------------------------------
(* Python str primitives on character codes *)

\* "B", "b", "y", "1"
CharSet == {66, 98, 121, 49}

isalpha(ch) == ch \in 65..90 \/ ch \in 97..122

upper(ch) == IF ch \in 97..122 THEN ch - 32 ELSE ch

Upper(s) == [i \in 1..Len(s) |-> upper(s[i])]

\* ''.join(ch.upper() for ch in s if ch.isalpha())
LettersUpper(s) == Upper(SelectSeq(s, isalpha))

RECURSIVE SumOrd(_)
\* sum(ord(c) for c in s)
SumOrd(s) == IF s = <<>> THEN 0 ELSE Head(s) + SumOrd(Tail(s))

Ok(v) == [err |-> "", val |-> v]

Raise(msg) == [err |-> msg, val |-> <<>>]

----------------------------------------------------------------------------
(* cipher_core.py *)

\* "ABCDEFGHIJKLMNOPQRSTUVWXYZ"
ALPHABET == [i \in 1..26 |-> 64 + i]

\* ALPHABET.index(ch), 0-based
AlphabetIndex(ch) == CHOOSE i \in 0..25 : ALPHABET[i + 1] = ch

\* ALPHABET[i], 0-based
AlphabetAt(i) == ALPHABET[i + 1]

\* a clean_text that ignores keep_nonletters
clean_text_strip(s, keep_nonletters) == LettersUpper(s)

clean_text(s, keep_nonletters) ==
    IF keep_nonletters THEN Upper(s) ELSE LettersUpper(s)

\* ''.join([k for k in key.upper() if k.isalpha()])
key_letters(k) == SelectSeq(Upper(k), isalpha)

KeyMsg == "Vigenere key must contain letters"

ParamMsg == "a has no modular inverse mod 26"

RECURSIVE VigEncLoopEveryChar(_, _, _, _)
\* a loop whose key index advances on every character
VigEncLoopEveryChar(plaintext, kl, i, ki) ==
    IF i > Len(plaintext) THEN <<>>
    ELSE IF isalpha(plaintext[i])
         THEN LET p == AlphabetIndex(upper(plaintext[i]))
                  k == AlphabetIndex(kl[(ki % Len(kl)) + 1])
              IN  <<AlphabetAt((p + k) % 26)>>
                      \o VigEncLoopEveryChar(plaintext, kl, i + 1, ki + 1)
         ELSE <<plaintext[i]>> \o VigEncLoopEveryChar(plaintext, kl, i + 1, ki + 1)

RECURSIVE VigEncLoop(_, _, _, _)
\* the for loop of vigenere_encrypt from character i (1-based) with key index ki
VigEncLoop(plaintext, kl, i, ki) ==
    IF i > Len(plaintext) THEN <<>>
    ELSE IF isalpha(plaintext[i])
         THEN LET p == AlphabetIndex(upper(plaintext[i]))
                  k == AlphabetIndex(kl[(ki % Len(kl)) + 1])
              IN  <<AlphabetAt((p + k) % 26)>> \o VigEncLoop(plaintext, kl, i + 1, ki + 1)
         ELSE <<plaintext[i]>> \o VigEncLoop(plaintext, kl, i + 1, ki)

RECURSIVE VigDecLoop(_, _, _, _)
\* the for loop of vigenere_decrypt
VigDecLoop(ciphertext, kl, i, ki) ==
    IF i > Len(ciphertext) THEN <<>>
    ELSE IF isalpha(ciphertext[i])
         THEN LET c == AlphabetIndex(upper(ciphertext[i]))
                  k == AlphabetIndex(kl[(ki % Len(kl)) + 1])
              IN  <<AlphabetAt((c - k) % 26)>> \o VigDecLoop(ciphertext, kl, i + 1, ki + 1)
         ELSE <<ciphertext[i]>> \o VigDecLoop(ciphertext, kl, i + 1, ki)

vigenere_encrypt(plaintext, k) ==
    LET kl == key_letters(k)
    IN  IF Len(kl) = 0 THEN Raise(KeyMsg) ELSE Ok(VigEncLoop(plaintext, kl, 1, 0))

\* a vigenere_decrypt that looks at the key only when it meets a letter
vigenere_decrypt_lazy(ciphertext, k) ==
    LET kl == key_letters(k)
    IN  IF Len(kl) = 0 /\ LettersUpper(ciphertext) # <<>> THEN Raise(KeyMsg)
        ELSE IF Len(kl) = 0 THEN Ok(ciphertext)
        ELSE Ok(VigDecLoop(ciphertext, kl, 1, 0))

vigenere_decrypt(ciphertext, k) ==
    LET kl == key_letters(k)
    IN  IF Len(kl) = 0 THEN Raise(KeyMsg) ELSE Ok(VigDecLoop(ciphertext, kl, 1, 0))

\* Python's None, and a returned int
None == [none |-> TRUE, x |-> 0]

Some(x) == [none |-> FALSE, x |-> x]

RECURSIVE ModInvLoop(_, _, _)
\* for x in range(x, m): if (a * x) % m == 1: return x / return None
ModInvLoop(am, m, x) ==
    IF x >= m THEN None
    ELSE IF (am * x) % m = 1 THEN Some(x)
    ELSE ModInvLoop(am, m, x + 1)

\* a mod_inverse whose search starts at 2
mod_inverse_from2(n, m) == ModInvLoop(n % m, m, 2)

mod_inverse(n, m) == ModInvLoop(n % m, m, 1)

RECURSIVE AffEncLoop(_, _, _, _)
AffEncLoop(plaintext, ea, eb, i) ==
    IF i > Len(plaintext) THEN <<>>
    ELSE IF isalpha(plaintext[i])
         THEN LET p == AlphabetIndex(upper(plaintext[i]))
              IN  <<AlphabetAt((ea * p + eb) % 26)>> \o AffEncLoop(plaintext, ea, eb, i + 1)
         ELSE <<plaintext[i]>> \o AffEncLoop(plaintext, ea, eb, i + 1)

affine_encrypt(plaintext, ea, eb) == Ok(AffEncLoop(plaintext, ea, eb, 1))

RECURSIVE AffDecLoopNoParens(_, _, _, _)
\* a loop that computes a_inv * c - b
AffDecLoopNoParens(ciphertext, a_inv, db, i) ==
    IF i > Len(ciphertext) THEN <<>>
    ELSE IF isalpha(ciphertext[i])
         THEN LET c == AlphabetIndex(upper(ciphertext[i]))
              IN  <<AlphabetAt((a_inv * c - db) % 26)>>
                      \o AffDecLoopNoParens(ciphertext, a_inv, db, i + 1)
         ELSE <<ciphertext[i]>> \o AffDecLoopNoParens(ciphertext, a_inv, db, i + 1)

RECURSIVE AffDecLoop(_, _, _, _)
AffDecLoop(ciphertext, a_inv, db, i) ==
    IF i > Len(ciphertext) THEN <<>>
    ELSE IF isalpha(ciphertext[i])
         THEN LET c == AlphabetIndex(upper(ciphertext[i]))
              IN  <<AlphabetAt((a_inv * (c - db)) % 26)>>
                      \o AffDecLoop(ciphertext, a_inv, db, i + 1)
         ELSE <<ciphertext[i]>> \o AffDecLoop(ciphertext, a_inv, db, i + 1)

\* an affine_decrypt that finds the missing inverse only when it meets a letter
affine_decrypt_lazy(ciphertext, da, db) ==
    LET a_inv == mod_inverse(da, 26)
    IN  IF a_inv.none /\ LettersUpper(ciphertext) # <<>> THEN Raise(ParamMsg)
        ELSE Ok(AffDecLoop(ciphertext, a_inv.x, db, 1))

affine_decrypt(ciphertext, da, db) ==
    LET a_inv == mod_inverse(da, 26)
    IN  IF a_inv.none THEN Raise(ParamMsg)
        ELSE Ok(AffDecLoop(ciphertext, a_inv.x, db, 1))

derive_affine_params_from_key(k) == [a |-> 5, b |-> SumOrd(k) % 26]

combined_encrypt(plaintext, k, keep_nonletters) ==
    LET txt    == clean_text(plaintext, keep_nonletters)
        stage1 == vigenere_encrypt(txt, k)
        ab     == derive_affine_params_from_key(k)
    IN  IF stage1.err # "" THEN stage1
        ELSE affine_encrypt(stage1.val, ab.a, ab.b)

\* a combined_decrypt that removes the layers in the order they were applied
combined_decrypt_same_order(ciphertext, k, keep_nonletters) ==
    LET ab     == derive_affine_params_from_key(k)
        stage1 == vigenere_decrypt(ciphertext, k)
    IN  IF stage1.err # "" THEN stage1
        ELSE affine_decrypt(stage1.val, ab.a, ab.b)

combined_decrypt(ciphertext, k, keep_nonletters) ==
    LET ab     == derive_affine_params_from_key(k)
        stage1 == affine_decrypt(ciphertext, ab.a, ab.b)
    IN  IF stage1.err # "" THEN stage1
        ELSE vigenere_decrypt(stage1.val, k)

----------------------------------------------------------------------------
(* Inputs *)

SeqsUpTo(S, n) == UNION {[1..k -> S] : k \in 0..n}

\* "HELLO", "RCLLA", "RIJVS", "KEY", "k-Ey"
HELLO == <<72, 69, 76, 76, 79>>
RCLLA == <<82, 67, 76, 76, 65>>
RIJVS == <<82, 73, 74, 86, 83>>
KEY == <<75, 69, 89>>
KEYSpelled == <<107, 45, 69, 121>>
\* "12345"
Digits == <<49, 50, 51, 52, 53>>

Texts == SeqsUpTo(CharSet, MaxLen) \cup {HELLO, RIJVS}

Keys == SeqsUpTo(CharSet, MaxKeyLen) \cup {KEY, KEYSpelled, Digits}

AffTexts == SeqsUpTo(CharSet, MaxAffLen) \cup {HELLO, RCLLA, ALPHABET}

AffAs == (0 - AExtra)..(26 + AExtra)

AffBs == 0..25

\* the key spellings with the same letters as k
SameLetters(k) == {k2 \in Keys : key_letters(k2) = key_letters(k)}

----------------------------------------------------------------------------
(* The calls *)

NoRet == [err |-> "", val |-> <<>>]

NoOutput == [kind |-> "", msg |-> "", found |-> 0, attempts |-> 0, solutions |-> <<>>]

KpaIdle ==
    /\ cipher = <<>> /\ known = <<>> /\ pc = "idle"
    /\ c_clean = <<>> /\ p_clean = <<>> /\ results = <<>> /\ attempts = 0
    /\ ia = 0 /\ ib = 0 /\ output = NoOutput
    /\ attack = "" /\ max_vig_keylen = 0 /\ top_candidates = 0

\* the window built, no attack dispatched
GuiIdle ==
    /\ threads = <<>> /\ after_queue = <<>> /\ progress = FALSE
    /\ atk_output = [kind |-> "empty"] /\ messagebox = ""

Init ==
    /\ fn = "" /\ text = <<>> /\ key = <<>> /\ keep = FALSE
    /\ a = 0 /\ b = 0 /\ ret = NoRet
    /\ fn2 = "" /\ key2 = <<>> /\ ret2 = NoRet
    /\ KpaIdle
    /\ GuiIdle

First(f, t, k, kn, fa, fb, r) ==
    /\ fn' = f /\ text' = t /\ key' = k /\ keep' = kn /\ a' = fa /\ b' = fb
    /\ ret' = r
    /\ UNCHANGED <<fn2, key2, ret2>>
    /\ UNCHANGED kpaVars
    /\ UNCHANGED <<bcfVars, guiVars>>

Second(f, k, r) ==
    /\ fn2' = f /\ key2' = k /\ ret2' = r
    /\ UNCHANGED <<fn, text, key, keep, a, b, ret>>
    /\ UNCHANGED kpaVars
    /\ UNCHANGED <<bcfVars, guiVars>>

CallModInverse ==
    /\ fn = ""
    /\ \E n \in (0 - MaxA)..MaxA :
            LET r == mod_inverse(n, 26)
            IN  First("mod_inverse", <<>>, <<>>, FALSE, n, 0,
                      IF r.none THEN [err |-> "None", val |-> <<>>] ELSE Ok(<<r.x>>))

CallAffineEncrypt ==
    /\ fn = ""
    /\ \E t \in AffTexts, ea \in AffAs, eb \in AffBs :
            First("affine_encrypt", t, <<>>, FALSE, ea, eb, affine_encrypt(t, ea, eb))

CallAffineDecrypt ==
    /\ fn = ""
    /\ \E t \in AffTexts, da \in AffAs, db \in AffBs :
            First("affine_decrypt", t, <<>>, FALSE, da, db, affine_decrypt(t, da, db))

CallVigenereEncrypt ==
    /\ fn = ""
    /\ \E t \in Texts, k \in Keys :
            First("vigenere_encrypt", t, k, FALSE, 0, 0, vigenere_encrypt(t, k))

CallVigenereDecrypt ==
    /\ fn = ""
    /\ \E t \in Texts, k \in Keys :
            First("vigenere_decrypt", t, k, FALSE, 0, 0, vigenere_decrypt(t, k))

CallCombinedEncrypt ==
    /\ fn = ""
    /\ \E t \in Texts, k \in Keys, kn \in BOOLEAN :
            First("combined_encrypt", t, k, kn, 0, 0, combined_encrypt(t, k, kn))

CallCombinedDecrypt ==
    /\ fn = ""
    /\ \E t \in Texts, k \in Keys, kn \in BOOLEAN :
            First("combined_decrypt", t, k, kn, 0, 0, combined_decrypt(t, k, kn))

\* affine_decrypt of what affine_encrypt returned, with the same a and b
AffineDecryptBack ==
    /\ fn = "affine_encrypt" /\ fn2 = "" /\ ret.err = ""
    /\ Second("affine_decrypt", <<>>, affine_decrypt(ret.val, a, b))

\* vigenere_decrypt of what vigenere_encrypt returned, with a spelling of the key
VigenereDecryptBack ==
    /\ fn = "vigenere_encrypt" /\ fn2 = "" /\ ret.err = ""
    /\ \E k \in SameLetters(key) :
           Second("vigenere_decrypt", k, vigenere_decrypt(ret.val, k))

\* combined_decrypt of what combined_encrypt returned, with a spelling of the key
CombinedDecryptBack ==
    /\ fn = "combined_encrypt" /\ fn2 = "" /\ ret.err = ""
    /\ \E k \in SameLetters(key) :
           Second("combined_decrypt", k, combined_decrypt(ret.val, k, keep))

\* combined_encrypt of the same text under another spelling of the key
CombinedEncryptAgain ==
    /\ fn = "combined_encrypt" /\ fn2 = "" /\ ret.err = ""
    /\ \E k \in SameLetters(key) :
           Second("combined_encrypt", k, combined_encrypt(text, k, keep))

Next ==
    \/ CallModInverse
    \/ CallAffineEncrypt
    \/ CallAffineDecrypt
    \/ CallVigenereEncrypt
    \/ CallVigenereDecrypt
    \/ CallCombinedEncrypt
    \/ CallCombinedDecrypt
    \/ AffineDecryptBack
    \/ VigenereDecryptBack
    \/ CombinedDecryptBack
    \/ CombinedEncryptAgain

Spec == Init /\ [][Next]_vars

----------------------------------------------------------------------------
(* Properties of cipher_core.py *)

RECURSIVE GCD(_, _)
GCD(x, y) == IF y = 0 THEN x ELSE GCD(y, x % y)

Abs(x) == IF x < 0 THEN 0 - x ELSE x

Coprime26(n) == GCD(Abs(n), 26) = 1

HasLetter(s) == \E i \in 1..Len(s) : s[i] \in 65..90 \/ s[i] \in 97..122

\* the letter with 0-based index i, and the index of an upper-case letter
Letter(i) == 65 + i
Index(ch) == ch - 65

\* the number of letters of s before position i
LettersBefore(s, i) == Cardinality({j \in 1..(i - 1) : isalpha(s[j])})

C3_ModInverseExact ==
    fn = "mod_inverse" =>
        IF Coprime26(a)
        THEN /\ ret.err = ""
             /\ ret.val[1] \in 1..25
             /\ (a * ret.val[1]) % 26 = 1
             /\ \A y \in 1..(ret.val[1] - 1) : (a * y) % 26 # 1
        ELSE ret.err = "None"

C3_Witness ==
    /\ fn = "mod_inverse" /\ a = 0 - 21 /\ ret.err = "" /\ ret.val = <<21>>

\* C4: for a coprime with 26, b in 0..25 and a text of letters A-Z,
\* affine_encrypt maps the letter of index p to the letter of index
\* (a * p + b) mod 26 and affine_decrypt with the same a and b returns the text;
\* affine_encrypt("HELLO", 5, 8) = "RCLLA" and affine_decrypt("RCLLA", 5, 8) = "HELLO".
C4_AffineInversion ==
    /\ (fn = "affine_encrypt" /\ Coprime26(a) /\ \A i \in 1..Len(text) : text[i] \in 65..90) =>
           /\ ret.err = "" /\ Len(ret.val) = Len(text)
           /\ \A i \in 1..Len(text) :
                  ret.val[i] = Letter((a * Index(text[i]) + b) % 26)
           /\ fn2 = "affine_decrypt" => ret2 = Ok(text)
    /\ (fn = "affine_encrypt" /\ text = HELLO /\ a = 5 /\ b = 8) => ret = Ok(RCLLA)
    /\ (fn = "affine_decrypt" /\ text = RCLLA /\ a = 5 /\ b = 8) => ret = Ok(HELLO)

C4_Witness ==
    /\ fn = "affine_encrypt" /\ text = ALPHABET /\ a = 27 /\ b = 25
    /\ fn2 = "affine_decrypt" /\ ret2.val = ALPHABET /\ ret.val # ALPHABET

\* C5: vigenere_encrypt and vigenere_decrypt leave every non-letter in place
\* and shift the n-th letter of the input (n counts letters only, from 0) by
\* key letter n mod len(key letters), forwards resp. backwards;
\* vigenere_encrypt("HELLO", "KEY") = "RIJVS", vigenere_decrypt("RIJVS", "KEY") = "HELLO".
C5_KeyIndexOnLetters ==
    /\ (fn \in {"vigenere_encrypt", "vigenere_decrypt"} /\ ret.err = "") =>
           LET kl   == LettersUpper(key)
               sign == IF fn = "vigenere_encrypt" THEN 1 ELSE 0 - 1
           IN  /\ Len(ret.val) = Len(text)
               /\ \A i \in 1..Len(text) :
                      IF isalpha(text[i])
                      THEN LET n == LettersBefore(text, i)
                               k == Index(kl[(n % Len(kl)) + 1])
                           IN  ret.val[i] = Letter((Index(upper(text[i])) + sign * k) % 26)
                      ELSE ret.val[i] = text[i]
    /\ (fn = "vigenere_encrypt" /\ text = HELLO /\ key = KEY) => ret = Ok(RIJVS)
    /\ (fn = "vigenere_decrypt" /\ text = RIJVS /\ key = KEY) => ret = Ok(HELLO)

C5_Witness ==
    /\ fn = "vigenere_encrypt" /\ text = <<49, 66, 49>> /\ key = KEYSpelled
    /\ ret = Ok(<<49, 76, 49>>)

\* C6: with a key that contains no letter, vigenere_encrypt, vigenere_decrypt,
\* combined_encrypt and combined_decrypt raise the key error whatever the text,
\* and return nothing.
C6_KeyWithoutLetters ==
    (/\ fn \in {"vigenere_encrypt", "vigenere_decrypt", "combined_encrypt", "combined_decrypt"}
     /\ ~HasLetter(key)) =>
        ret = Raise(KeyMsg)

C6_Witness ==
    /\ fn = "combined_decrypt" /\ key = Digits /\ text = <<>> /\ ret.err = KeyMsg

\* C7: affine_decrypt raises the parameter error, returning nothing, exactly
\* when a is not coprime with 26, whatever the text and b.
C7_AffineDecryptParameterError ==
    /\ fn = "affine_decrypt" =>
           IF Coprime26(a) THEN ret.err # ParamMsg ELSE ret = Raise(ParamMsg)
    /\ fn2 = "affine_decrypt" =>
           IF Coprime26(a) THEN ret2.err # ParamMsg ELSE ret2 = Raise(ParamMsg)

C7_Witness ==
    /\ fn = "affine_decrypt" /\ a = 2 /\ b = 0 /\ text = <<>> /\ ret = Raise(ParamMsg)

\* C9: two spellings of a key with the same letters give the same ciphertext
\* from combined_encrypt, and either one decrypts what the other encrypted.
C9_KeyUsedThroughItsLetters ==
    (fn = "combined_encrypt" /\ LettersUpper(key2) = LettersUpper(key)) =>
        /\ fn2 = "combined_encrypt" => ret2 = ret
        /\ fn2 = "combined_decrypt" => ret2 = Ok(clean_text(text, keep))

----------------------------------------------------------------------------
(* attack_tools.py: calculate_english_score and known_plaintext_attack *)

\* ENGLISH_FREQ, in thousandths of a percent, for A .. Z
ENGLISH_FREQ ==
    <<8167, 1492, 2782, 4253, 12702, 2228, 2015, 6094, 6966, 153, 772, 4025, 2406,
      6749, 7507, 1929, 95, 5987, 6327, 9056, 2758, 978, 2360, 150, 1974, 74>>

Min(x, y) == IF x < y THEN x ELSE y

Max(x, y) == IF x > y THEN x ELSE y

\* freq.get(letter, 0) over text.upper()
CountOf(s, ch) == Cardinality({i \in 1..Len(s) : upper(s[i]) = ch})

RECURSIVE ScoreLoop(_, _, _)
\* the loop over ENGLISH_FREQ.items(), from letter l (1-based):
\* max(0, 10 - |observed_freq - expected_freq|), times 1000 * total_chars
ScoreLoop(s, total_chars, l) ==
    IF l > 26 THEN 0
    ELSE LET observed == 100000 * CountOf(s, ALPHABET[l])
             expected == ENGLISH_FREQ[l] * total_chars
             diff     == IF observed >= expected THEN observed - expected
                         ELSE expected - observed
         IN  Max(0, 10000 * total_chars - diff) + ScoreLoop(s, total_chars, l + 1)

\* calculate_english_score(text) * 1000 * total_chars, an exact integer (0 when the
\* function returns 0 early).  Every text scored within one attack has the same
\* total_chars, len(c_clean), so the order of the scores is the order of these.
calculate_english_score(s) ==
    LET total_chars == Cardinality({i \in 1..Len(s) : upper(s[i]) \in 65..90})
    IN  IF s = <<>> \/ total_chars = 0 THEN 0 ELSE ScoreLoop(s, total_chars, 1)

\* p_clean in decrypted
Contains(s, sub) ==
    \E st \in 0..(Len(s) - Len(sub)) : SubSeq(s, st + 1, st + Len(sub)) = sub

\* s[lo:hi] for 0 <= lo
Slice(s, lo, hi) == SubSeq(s, lo + 1, Min(hi, Len(s)))

\* valid_as
valid_as == <<1, 3, 5, 7, 9, 11, 15, 17, 19, 21, 23, 25>>

\* derived_key: key = (cipher - plain) mod 26 for each i < len(affine_segment)
DerivedKey(affine_segment, pcl) ==
    [i \in 1..Min(Len(pcl), Len(affine_segment)) |->
        AlphabetAt((AlphabetIndex(affine_segment[i]) - AlphabetIndex(pcl[i])) % 26)]

RECURSIVE KeyLenLoopNoCheck(_, _, _, _, _, _, _, _)
\* a loop that appends every derived key without looking for p_clean
KeyLenLoopNoCheck(after_affine_full, pcl, derived_key, va, vb, start_pos, att, key_len) ==
    IF key_len >= Min(20, Len(derived_key) + 1) THEN <<>>
    ELSE LET test_key  == SubSeq(derived_key, 1, key_len)
             decrypted == vigenere_decrypt(after_affine_full, test_key)
         IN  IF decrypted.err # "" THEN <<>>
             ELSE <<[affine_a |-> va, affine_b |-> vb, vigenere_key |-> test_key,
                     plaintext |-> decrypted.val,
                     english_score |-> calculate_english_score(decrypted.val),
                     position |-> start_pos, attempts |-> att]>>
                  \o KeyLenLoopNoCheck(after_affine_full, pcl, derived_key, va, vb,
                                       start_pos, att, key_len + 1)

RECURSIVE KeyLenLoop(_, _, _, _, _, _, _, _)
\* for key_len in range(key_len, min(20, len(derived_key) + 1)): what is appended
KeyLenLoop(after_affine_full, pcl, derived_key, va, vb, start_pos, att, key_len) ==
    IF key_len >= Min(20, Len(derived_key) + 1) THEN <<>>
    ELSE LET test_key  == SubSeq(derived_key, 1, key_len)
             decrypted == vigenere_decrypt(after_affine_full, test_key)
         IN  IF decrypted.err # "" THEN <<>>
             ELSE (IF Contains(decrypted.val, pcl)
                   THEN <<[affine_a |-> va, affine_b |-> vb, vigenere_key |-> test_key,
                           plaintext |-> decrypted.val,
                           english_score |-> calculate_english_score(decrypted.val),
                           position |-> start_pos, attempts |-> att]>>
                   ELSE <<>>)
                  \o KeyLenLoop(after_affine_full, pcl, derived_key, va, vb,
                                start_pos, att, key_len + 1)

RECURSIVE StartPosLoop(_, _, _, _, _, _, _)
\* for start_pos in range(start_pos, last): what is appended
StartPosLoop(after_affine_full, pcl, va, vb, att, start_pos, last) ==
    IF start_pos >= last THEN <<>>
    ELSE LET affine_segment == Slice(after_affine_full, start_pos, start_pos + Len(pcl))
             derived_key    == DerivedKey(affine_segment, pcl)
         IN  (IF derived_key # <<>>
              THEN KeyLenLoop(after_affine_full, pcl, derived_key, va, vb, start_pos, att, 10)
              ELSE <<>>)
             \o StartPosLoop(after_affine_full, pcl, va, vb, att, start_pos + 1, last)

\* range(min(5, len(c_clean) - len(p_clean) + 1))
StartPosCount(ccl, pcl) == Min(5, Len(ccl) - Len(pcl) + 1)

\* the body of the loops over a and b: what one (a, b) appends to results
PairResults(ccl, pcl, va, vb, att) ==
    LET after_affine_full == affine_decrypt(ccl, va, vb)
    IN  IF after_affine_full.err # "" THEN <<>>
        ELSE StartPosLoop(after_affine_full.val, pcl, va, vb, att, 0,
                          StartPosCount(ccl, pcl))

\* key_tuple of a result
KeyTuple(r) == <<r.affine_a, r.affine_b, r.vigenere_key>>

\* the places in rs of the results whose key_tuple was not seen before them
FirstOfKey(rs) ==
    {i \in 1..Len(rs) : \A j \in 1..(i - 1) : KeyTuple(rs[j]) # KeyTuple(rs[i])}

\* the elements of rs at the places kept, in their order
Kept(rs, kept) ==
    CHOOSE u \in {[n \in 1..Cardinality(kept) |-> rs[CHOOSE i \in kept : place[i] = n]] :
                      place \in {[i \in kept |-> Cardinality({j \in kept : j <= i})]}} : TRUE

\* unique_results: the first result of every (affine_a, affine_b, vigenere_key)
Unique(rs) ==
    CHOOSE u \in {Kept(p[1], p[2]) : p \in {<<x, FirstOfKey(x)>> : x \in {rs}}} : TRUE

\* where a stable sort by descending english_score puts each element of rs: after
\* the elements of higher score and the earlier elements of equal score
RankByScore(rs) ==
    [i \in 1..Len(rs) |->
         1 + Cardinality({j \in 1..Len(rs) :
                              \/ rs[j].english_score > rs[i].english_score
                              \/ rs[j].english_score = rs[i].english_score /\ j < i})]

\* list.sort(key=english_score, reverse=True): stable, highest score first
SortByScore(rs) ==
    CHOOSE sorted \in
        {[n \in 1..Len(p[1]) |-> p[1][CHOOSE i \in 1..Len(p[1]) : p[2][i] = n]] :
             p \in {<<x, RankByScore(x)>> : x \in {rs}}} : TRUE

Message(m, att) ==
    [kind |-> "message", msg |-> m, found |-> 0, attempts |-> att, solutions |-> <<>>]

NeedAlphaMsg == "Need alphabetic characters for both ciphertext and known plaintext."

TooShortMsg == "Known plaintext should be at least 4 characters for reliable attack."

TooLongMsg == "Known plaintext is longer than ciphertext!"

\* "Attack failed after {attempts} attempts. No valid decryption found. ...":
\* the number of attempts is the attempts field of the message
FailedMsg == "Attack failed after attempts. No valid decryption found."

\* the checks of known_plaintext_attack with a minimum of 3 letters
InputCheckMin3(ccl, pcl) ==
    IF ccl = <<>> \/ pcl = <<>> THEN NeedAlphaMsg
    ELSE IF Len(pcl) < 3 THEN TooShortMsg
    ELSE IF Len(pcl) > Len(ccl) THEN TooLongMsg
    ELSE ""

\* the checks on the cleaned inputs: the message returned, "" when they pass
InputCheck(ccl, pcl) ==
    IF ccl = <<>> \/ pcl = <<>> THEN NeedAlphaMsg
    ELSE IF Len(pcl) < 4 THEN TooShortMsg
    ELSE IF Len(pcl) > Len(ccl) THEN TooLongMsg
    ELSE ""

\* known_plaintext_attack up to its loops: the inputs are cleaned and checked
KPA_Start ==
    /\ attack = "known_plaintext_attack"
    /\ pc = "start"
    /\ LET ccl == LettersUpper(cipher)
           pcl == LettersUpper(known)
           m   == InputCheck(ccl, pcl)
       IN  /\ c_clean' = ccl /\ p_clean' = pcl
           /\ results' = <<>> /\ attempts' = 0
           /\ IF m # ""
              THEN /\ pc' = "done" /\ output' = Message(m, 0)
                   /\ UNCHANGED <<ia, ib>>
              ELSE /\ pc' = "loop" /\ ia' = 1 /\ ib' = 0
                   /\ UNCHANGED output
    /\ UNCHANGED <<cipher, known>>
    /\ UNCHANGED cipherVars
    /\ UNCHANGED <<bcfVars, guiVars>>

\* one pass of the loops over a in valid_as and b in range(26)
KPA_Pair ==
    /\ attack = "known_plaintext_attack"
    /\ pc = "loop"
    /\ attempts' = attempts + 1
    /\ results' = results \o PairResults(c_clean, p_clean, valid_as[ia], ib, attempts + 1)
    /\ IF ib < 25 THEN ib' = ib + 1 /\ ia' = ia /\ pc' = "loop"
       ELSE IF ia < Len(valid_as) THEN ib' = 0 /\ ia' = ia + 1 /\ pc' = "loop"
       ELSE ib' = ib /\ ia' = ia /\ pc' = "finish"
    /\ UNCHANGED <<cipher, known, c_clean, p_clean, output>>
    /\ UNCHANGED cipherVars
    /\ UNCHANGED <<bcfVars, guiVars>>

\* what follows the loops: the failure message, or the duplicates removed, the
\* sort by score and the top 3 formatted
KPA_Finish ==
    /\ attack = "known_plaintext_attack"
    /\ pc = "finish"
    /\ pc' = "done"
    /\ output' =
           IF results = <<>> THEN Message(FailedMsg, attempts)
           ELSE CHOOSE report \in
                    {[kind |-> "report", msg |-> "KNOWN-PLAINTEXT ATTACK - SUCCESS!",
                      found |-> Len(unique_results), attempts |-> attempts,
                      solutions |-> SubSeq(unique_results, 1, Min(3, Len(unique_results)))] :
                         unique_results \in {SortByScore(Unique(results))}} : TRUE
    /\ UNCHANGED <<cipher, known, c_clean, p_clean, results, attempts, ia, ib>>
    /\ UNCHANGED cipherVars
    /\ UNCHANGED <<bcfVars, guiVars>>

\* "THIS IS A SECRET MESSAGE THAT MUST REMAIN CONFIDENTIAL" of test_known_attack.py
TestPlaintext ==
    <<84, 72, 73, 83, 32, 73, 83, 32, 65, 32, 83, 69, 67, 82, 69, 84, 32, 77, 69,
      83, 83, 65, 71, 69, 32, 84, 72, 65, 84, 32, 77, 85, 83, 84, 32, 82, 69, 77,
      65, 73, 78, 32, 67, 79, 78, 70, 73, 68, 69, 78, 84, 73, 65, 76>>

\* "TESTKEYXYZ"
TestKey == <<84, 69, 83, 84, 75, 69, 89, 88, 89, 90>>

\* the test's plaintext is cut after its first PlainChars characters
PlainChars == 24

\* the known fragment starts at most MaxStart letters into the cleaned plaintext
MaxStart == 8

\* the longest known fragment cut from the cleaned plaintext
MaxFrag == 10

\* the lengths of the fragments cut from the cleaned plaintext
FragLens == {1, 3, 4, 6, MaxFrag}

\* where the fragments cut from the cleaned plaintext start
Starts == {0, 5, MaxStart}

\* clean_plain[start:start+n] for the starts and lengths drawn
Fragments(clean_plain) ==
    {SubSeq(clean_plain, st + 1, st + n) : st \in Starts, n \in FragLens}

\* known fragments that are not cut from the plaintext: "", "1", "b1y", "12345", "AB"
OtherKnown == {<<>>, <<49>>, <<98, 49, 121>>, Digits, <<65, 66>>}

\* ciphertexts that are not the encryption: "", "1", "By"
OtherCipher == {<<>>, <<49>>, <<66, 121>>}

\* test_known_attack.py up to its call of the attack: the plaintext is encrypted,
\* a fragment of the cleaned plaintext is the known plaintext
InitKPA ==
    /\ fn = "combined_encrypt" /\ text = SubSeq(TestPlaintext, 1, PlainChars)
    /\ key = TestKey /\ keep = FALSE
    /\ a = 0 /\ b = 0 /\ ret = combined_encrypt(text, key, keep)
    /\ fn2 = "" /\ key2 = <<>> /\ ret2 = NoRet
    /\ cipher \in {ret.val} \cup OtherCipher
    /\ known \in Fragments(clean_text(text, FALSE)) \cup OtherKnown
    /\ pc = "start"
    /\ c_clean = <<>> /\ p_clean = <<>> /\ results = <<>> /\ attempts = 0
    /\ ia = 0 /\ ib = 0 /\ output = NoOutput
    /\ attack = "known_plaintext_attack" /\ max_vig_keylen = 0 /\ top_candidates = 0
    /\ GuiIdle

NextKPA ==
    \/ KPA_Start
    \/ KPA_Pair
    \/ KPA_Finish

SpecKPA == InitKPA /\ [][NextKPA]_vars

----------------------------------------------------------------------------
(* Properties of known_plaintext_attack *)

\* the attack was given the encryption of the plaintext and a fragment of at
\* least 4 letters cut from the cleaned plaintext
FragmentOfPlaintext ==
    /\ ret.err = "" /\ cipher = ret.val
    /\ known = LettersUpper(known) /\ Len(known) >= 4
    /\ Contains(LettersUpper(text), known)

\* C2: given the two-stage encryption of a plaintext and a contiguous fragment of
\* at least 4 letters of the cleaned plaintext, known_plaintext_attack returns a
\* candidate whose full decryption is the cleaned plaintext.
C2_KnownPlaintextRecovers ==
    (pc = "done" /\ FragmentOfPlaintext) =>
        /\ output.kind = "report"
        /\ \E i \in 1..Len(output.solutions) :
               output.solutions[i].plaintext = LettersUpper(text)

\* C8 as claimed: with fewer than 4 letters in the cleaned known plaintext the
\* attack returns the too-short message, whatever the ciphertext, having tried no
\* (a, b) and found no candidate.
C8_TooShortWhateverTheInputs ==
    (pc = "done" /\ Len(LettersUpper(known)) < 4) =>
        /\ output = Message(TooShortMsg, 0)
        /\ attempts = 0 /\ results = <<>>

\* C8 as amended: with fewer than 4 letters in the cleaned known plaintext the
\* attack never enters its loops: it tries no (a, b), finds no candidate and
\* returns a message, which is the too-short message when the ciphertext has a
\* letter and the known plaintext 1, 2 or 3, and the need-alphabetic message when
\* either has none.
C8_TooShortNoSearch ==
    Len(LettersUpper(known)) < 4 =>
        /\ pc \in {"start", "done"}
        /\ attempts = 0 /\ results = <<>>
        /\ pc = "done" =>
               output = Message(IF HasLetter(cipher) /\ HasLetter(known)
                                THEN TooShortMsg ELSE NeedAlphaMsg, 0)

C8_Witness ==
    /\ pc = "done" /\ cipher = ret.val /\ HasLetter(cipher)
    /\ Len(LettersUpper(known)) = 3 /\ output.msg = TooShortMsg

\* the candidate r is what decrypting c_clean with its a, b and key gives, and
\* the cleaned known plaintext occurs in it
Validated(r) ==
    LET after == affine_decrypt(c_clean, r.affine_a, r.affine_b)
    IN  /\ after.err = ""
        /\ vigenere_decrypt(after.val, r.vigenere_key) = Ok(r.plaintext)
        /\ \E st \in 1..(Len(r.plaintext) - Len(p_clean) + 1) :
               \A i \in 1..Len(p_clean) : r.plaintext[st + i - 1] = p_clean[i]

\* C11: every candidate the attack found or reports is the re-decryption of the
\* cleaned ciphertext under its own a, b and key, and contains the cleaned known
\* plaintext; the reported candidates are among those found.
C11_CandidatesValidated ==
    pc \in {"finish", "done"} =>
        /\ \A i \in 1..Len(results) : Validated(results[i])
        /\ \A i \in 1..Len(output.solutions) :
               /\ Validated(output.solutions[i])
               /\ \E j \in 1..Len(results) : results[j] = output.solutions[i]

C11_Witness ==
    /\ pc = "done" /\ output.kind = "report" /\ Len(output.solutions) = 3
    /\ Len(p_clean) = 10 /\ Len(results) >= 312

\* the results the body of the start_pos loop appends for (a, b) = (va, vb) at
\* the one offset start_pos
AtOffset(va, vb, att, start_pos) ==
    LET after_affine_full == affine_decrypt(c_clean, va, vb)
    IN  IF after_affine_full.err # "" THEN <<>>
        ELSE StartPosLoop(after_affine_full.val, p_clean, va, vb, att,
                          start_pos, start_pos + 1)

\* C12: for each of the 12 x 26 pairs (a, b) every alignment offset from 0 to
\* len(c_clean) - len(p_clean) inclusive has been examined when the loops end:
\* the loop bound is the number of those offsets, and whatever the loop body
\* yields at such an offset is among the results.
C12_EveryOffsetExamined ==
    pc = "finish" =>
        /\ StartPosCount(c_clean, p_clean) = Len(c_clean) - Len(p_clean) + 1
        /\ \A n \in 1..Len(valid_as) : \A vb \in 0..25 :
           \A start_pos \in 0..(Len(c_clean) - Len(p_clean)) :
               LET found == AtOffset(valid_as[n], vb, (n - 1) * 26 + vb + 1, start_pos)
               IN  \A i \in 1..Len(found) :
                       \E j \in 1..Len(results) : results[j] = found[i]

----------------------------------------------------------------------------
(* break_combined_frequency of attack_tools.py.  Its scores are compared      *)
(* between texts of one length: the shifts of one column, and the full        *)
(* decryptions of c_clean, so calculate_english_score orders them as the code *)
(* does (the rounding of floats aside).                                       *)

\* text[pos::keylen], pos counted from 0
Segment(txt, pos, keylen) ==
    IF pos >= Len(txt) THEN <<>>
    ELSE [i \in 1..((Len(txt) - pos + keylen - 1) \div keylen) |->
              txt[pos + (i - 1) * keylen + 1]]

\* ''.join(ALPHABET[(ALPHABET.index(c) - shift) % 26] for c in segment)
ShiftSegment(segment, shift) ==
    [i \in 1..Len(segment) |-> AlphabetAt((AlphabetIndex(segment[i]) - shift) % 26)]

RECURSIVE ShiftLoopLast(_, _, _, _)
\* a loop over the shifts that keeps the last of the shifts of highest score
ShiftLoopLast(segment, shift, best_char, best_char_score) ==
    IF shift > 25 THEN best_char
    ELSE LET score == calculate_english_score(ShiftSegment(segment, shift))
         IN  IF score >= best_char_score
             THEN ShiftLoopLast(segment, shift + 1, AlphabetAt(shift), score)
             ELSE ShiftLoopLast(segment, shift + 1, best_char, best_char_score)

RECURSIVE ShiftLoop(_, _, _, _)
\* for shift in range(26): best_char of the column, from shift on
ShiftLoop(segment, shift, best_char, best_char_score) ==
    IF shift > 25 THEN best_char
    ELSE LET score == calculate_english_score(ShiftSegment(segment, shift))
         IN  IF score > best_char_score
             THEN ShiftLoop(segment, shift + 1, AlphabetAt(shift), score)
             ELSE ShiftLoop(segment, shift + 1, best_char, best_char_score)

RECURSIVE PosLoop(_, _, _)
\* for pos in range(keylen): key_chars, from pos on
PosLoop(txt, keylen, pos) ==
    IF pos >= keylen THEN <<>>
    ELSE LET segment == Segment(txt, pos, keylen)
         IN  (IF segment = <<>> THEN <<>> ELSE <<ShiftLoop(segment, 0, 65, -1)>>)
             \o PosLoop(txt, keylen, pos + 1)

RECURSIVE KeylenLoop(_, _, _, _)
\* for keylen in range(1, max_keylen + 1), from keylen on; best is
\* (best_key, best_plaintext, best_score), err the exception that ended the loop
KeylenLoop(txt, max_keylen, keylen, best) ==
    IF keylen > max_keylen THEN best
    ELSE LET test_key   == PosLoop(txt, keylen, 0)
             test_plain == vigenere_decrypt(txt, test_key)
         IN  IF test_plain.err # "" THEN [best EXCEPT !.err = test_plain.err]
             ELSE LET test_score == calculate_english_score(test_plain.val)
                  IN  KeylenLoop(txt, max_keylen, keylen + 1,
                          IF test_score > best.score
                          THEN [err |-> "", key |-> test_key,
                                plaintext |-> test_plain.val, score |-> test_score]
                          ELSE best)

\* the inner function break_vigenere_frequency(text, max_keylen)
break_vigenere_frequency(txt, max_keylen) ==
    KeylenLoop(txt, max_keylen, 1,
               [err |-> "", key |-> <<>>, plaintext |-> <<>>, score |-> -1])

\* the body of the loops over a and b: what one (a, b) appends to results
BcfPairResults(ccl, max_keylen, va, vb) ==
    LET after_affine == affine_decrypt(ccl, va, vb)
    IN  IF after_affine.err # "" THEN <<>>
        ELSE LET best == break_vigenere_frequency(after_affine.val, max_keylen)
             IN  IF best.err # "" THEN <<>>
                 ELSE <<[affine_a |-> va, affine_b |-> vb, vigenere_key |-> best.key,
                         plaintext |-> best.plaintext, score |-> best.score]>>

\* where a stable sort by descending score puts each element of rs: after the
\* elements of higher score and the earlier elements of equal score
Rank(rs) ==
    [i \in 1..Len(rs) |->
         1 + Cardinality({j \in 1..Len(rs) :
                              \/ rs[j].score > rs[i].score
                              \/ rs[j].score = rs[i].score /\ j < i})]

\* results.sort(key=score, reverse=True): stable, highest score first
BcfSort(rs) ==
    CHOOSE sorted \in {[n \in 1..Len(rs) |-> rs[CHOOSE i \in 1..Len(rs) : rank[i] = n]] :
                           rank \in {Rank(rs)}} : TRUE

\* the slice s[:n] of Python
Prefix(s, n) ==
    IF n >= 0 THEN SubSeq(s, 1, Min(n, Len(s))) ELSE SubSeq(s, 1, Max(0, Len(s) + n))

NoAlphaMsg == "No alphabetic characters in ciphertext."

NoValidMsg == "No valid decryptions found."

\* break_combined_frequency up to its loops
BCF_Start ==
    /\ attack = "break_combined_frequency"
    /\ pc = "start"
    /\ LET ccl == LettersUpper(cipher)
       IN  /\ c_clean' = ccl /\ results' = <<>>
           /\ IF ccl = <<>>
              THEN /\ pc' = "done" /\ output' = Message(NoAlphaMsg, 0)
                   /\ UNCHANGED <<ia, ib>>
              ELSE /\ pc' = "loop" /\ ia' = 1 /\ ib' = 0
                   /\ UNCHANGED output
    /\ UNCHANGED <<cipher, known, p_clean, attempts>>
    /\ UNCHANGED <<cipherVars, bcfVars, guiVars>>

\* one pass of the loops over a in valid_as and b in range(26)
BCF_Pair ==
    /\ attack = "break_combined_frequency"
    /\ pc = "loop"
    /\ results' = results \o BcfPairResults(c_clean, max_vig_keylen, valid_as[ia], ib)
    /\ IF ib < 25 THEN ib' = ib + 1 /\ ia' = ia /\ pc' = "loop"
       ELSE IF ia < Len(valid_as) THEN ib' = 0 /\ ia' = ia + 1 /\ pc' = "loop"
       ELSE ib' = ib /\ ia' = ia /\ pc' = "finish"
    /\ UNCHANGED <<cipher, known, c_clean, p_clean, attempts, output>>
    /\ UNCHANGED <<cipherVars, bcfVars, guiVars>>

\* what follows the loops: the sort by score and the top_candidates first
BCF_Finish ==
    /\ attack = "break_combined_frequency"
    /\ pc = "finish"
    /\ pc' = "done"
    /\ output' =
           IF results = <<>> THEN Message(NoValidMsg, 0)
           ELSE [kind |-> "report", msg |-> "FREQUENCY-BASED ATTACK RESULTS",
                 found |-> Len(results), attempts |-> 0,
                 solutions |-> Prefix(BcfSort(results), top_candidates)]
    /\ UNCHANGED <<cipher, known, c_clean, p_clean, results, attempts, ia, ib>>
    /\ UNCHANGED <<cipherVars, bcfVars, guiVars>>

\* the longest key length the attack is asked to try
MaxVigKeylen == 2
\* a number of candidates asked for beyond the 26 values of b
ManyCandidates == 27

\* "BOOYY"
BOOYY == <<66, 79, 79, 89, 89>>

\* "Bb O1o", cleaned to "BBOO"
BbOO == <<66, 98, 32, 79, 49, 111>>

\* the calls made: (ciphertext, max_vig_keylen, top_candidates)
BcfCalls ==
    {<<BOOYY, MaxVigKeylen, ManyCandidates>>,
     <<BbOO, MaxVigKeylen, 3>>,
     <<<<66, 121, 32, 66, 79>>, 1, 1>>,
     <<<<49>>, MaxVigKeylen, 3>>,
     <<<<>>, 1, 1>>}

InitBCF ==
    /\ fn = "" /\ text = <<>> /\ key = <<>> /\ keep = FALSE
    /\ a = 0 /\ b = 0 /\ ret = NoRet
    /\ fn2 = "" /\ key2 = <<>> /\ ret2 = NoRet
    /\ attack = "break_combined_frequency"
    /\ \E call \in BcfCalls :
           cipher = call[1] /\ max_vig_keylen = call[2] /\ top_candidates = call[3]
    /\ known = <<>> /\ pc = "start"
    /\ c_clean = <<>> /\ p_clean = <<>> /\ results = <<>> /\ attempts = 0
    /\ ia = 0 /\ ib = 0 /\ output = NoOutput
    /\ GuiIdle

NextBCF ==
    \/ BCF_Start
    \/ BCF_Pair
    \/ BCF_Finish

SpecBCF == InitBCF /\ [][NextBCF]_vars

----------------------------------------------------------------------------
(* Properties of break_combined_frequency *)

\* the scores of the 26 shifts of a column
ShiftScores(segment) ==
    [shift \in 0..25 |-> calculate_english_score(ShiftSegment(segment, shift))]

\* the smallest of the shifts whose score in sc is the highest
FirstBest(sc) ==
    CHOOSE shift \in 0..25 :
        /\ \A t \in 0..25 : sc[t] <= sc[shift]
        /\ \A t \in 0..(shift - 1) : sc[t] < sc[shift]

\* the key of length keylen whose every letter is the first best shift of its column
FirstBestKey(txt, keylen) ==
    [n \in 1..Min(keylen, Len(txt)) |->
         AlphabetAt(CHOOSE shift \in {FirstBest(sc) :
                                         sc \in {ShiftScores(Segment(txt, n - 1, keylen))}} :
                        TRUE)]

\* the candidate of every key length: its key, what it decrypts txt to, its score
Candidates(txt) ==
    [keylen \in 1..max_vig_keylen |->
         CHOOSE c \in {[key |-> k, plaintext |-> vigenere_decrypt(txt, k).val,
                         score |-> calculate_english_score(vigenere_decrypt(txt, k).val)] :
                            k \in {FirstBestKey(txt, keylen)}} : TRUE]

\* r is the candidate of the smallest key length of highest score, its key made
\* of the smallest best shifts
FirstDiscovered(r) ==
    \E cand \in {Candidates(affine_decrypt(c_clean, r.affine_a, r.affine_b).val)} :
    \E keylen \in 1..max_vig_keylen :
        /\ r.vigenere_key = cand[keylen].key
        /\ r.plaintext = cand[keylen].plaintext
        /\ r.score = cand[keylen].score
        /\ \A other \in 1..max_vig_keylen : cand[other].score <= r.score
        /\ \A other \in 1..(keylen - 1) : cand[other].score < r.score

\* the place of (a, b) in the enumeration of the pairs
PairOrder(r) == 26 * (CHOOSE n \in 1..Len(valid_as) : valid_as[n] = r.affine_a) + r.affine_b

\* C13: on equal scores the first discovered wins: for one (a, b) the smaller key
\* length is kept, within a column the smaller shift is kept, and of two reported
\* candidates of equal score the one whose (a, b) comes first in the enumeration
\* is placed ahead.
C13_FirstDiscoveredWins ==
    (attack = "break_combined_frequency" /\ pc = "done" /\ output.kind = "report") =>
        /\ \A i \in 1..Len(results) : FirstDiscovered(results[i])
        /\ \A i \in 1..Len(output.solutions) : \A j \in (i + 1)..Len(output.solutions) :
               /\ output.solutions[i].score >= output.solutions[j].score
               /\ output.solutions[i].score = output.solutions[j].score
                      => PairOrder(output.solutions[i]) < PairOrder(output.solutions[j])

\* a report whose first candidate ties with its own key of length 2, with another
\* shift of its column and with the second candidate
C13_Witness ==
    /\ attack = "break_combined_frequency" /\ pc = "done" /\ output.kind = "report"
    /\ Len(output.solutions) >= 2
    /\ LET r   == output.solutions[1]
           txt == affine_decrypt(c_clean, r.affine_a, r.affine_b).val
       IN  /\ Len(r.vigenere_key) = 1 /\ max_vig_keylen >= 2
           /\ calculate_english_score(vigenere_decrypt(txt, PosLoop(txt, 2, 0)).val)
                  = r.score
           /\ \E shift \in 0..25 :
                  /\ AlphabetAt(shift) # r.vigenere_key[1]
                  /\ calculate_english_score(ShiftSegment(txt, shift)) = r.score
           /\ output.solutions[2].score = r.score

\* C14: the reported candidates are the top_candidates highest-scoring among every
\* pair (a, b) combined with every key length from 1 to max_vig_keylen: a
\* candidate of some (a, b) and key length that is not reported does not score
\* higher than the last one reported.
C14_RanksOverAllKeyLengths ==
    (attack = "break_combined_frequency" /\ pc = "done" /\ output.kind = "report"
         /\ output.solutions # <<>>) =>
        \A n \in 1..Len(valid_as) : \A vb \in 0..25 :
        \E cand \in {Candidates(affine_decrypt(c_clean, valid_as[n], vb).val)} :
        \A keylen \in 1..max_vig_keylen :
            \/ \E i \in 1..Len(output.solutions) :
                   /\ output.solutions[i].affine_a = valid_as[n]
                   /\ output.solutions[i].affine_b = vb
                   /\ output.solutions[i].vigenere_key = cand[keylen].key
            \/ cand[keylen].score <= output.solutions[Len(output.solutions)].score

----------------------------------------------------------------------------
(* brute_force_affine_only of attack_tools.py.  The function has the one        *)
(* parameter ciphertext; top_candidates is here the top-K a caller passes after *)
(* it, 0 when the caller passes none.                                           *)

\* the body of the loops over a and b: what one (a, b) appends to results
BfaPairResults(ccl, va, vb) ==
    LET decrypted == affine_decrypt(ccl, va, vb)
    IN  IF decrypted.err # "" THEN <<>>
        ELSE <<[affine_a |-> va, affine_b |-> vb, plaintext |-> decrypted.val,
                score |-> calculate_english_score(decrypted.val)]>>

\* "brute_force_affine_only() takes 1 positional argument but 2 were given"
TypeErrorMsg == "TypeError"

Raised(m) ==
    [kind |-> "error", msg |-> m, found |-> 0, attempts |-> 0, solutions |-> <<>>]

NoAffineMsg == "No valid affine decryptions found."

\* the call, and brute_force_affine_only up to its loops
BFA_Start ==
    /\ attack = "brute_force_affine_only"
    /\ pc = "start"
    /\ IF top_candidates # 0
       THEN /\ pc' = "done" /\ output' = Raised(TypeErrorMsg)
            /\ UNCHANGED <<c_clean, results, ia, ib>>
       ELSE LET ccl == LettersUpper(cipher)
            IN  /\ c_clean' = ccl /\ results' = <<>>
                /\ IF ccl = <<>>
                   THEN /\ pc' = "done" /\ output' = Message(NoAlphaMsg, 0)
                        /\ UNCHANGED <<ia, ib>>
                   ELSE /\ pc' = "loop" /\ ia' = 1 /\ ib' = 0
                        /\ UNCHANGED output
    /\ UNCHANGED <<cipher, known, p_clean, attempts>>
    /\ UNCHANGED <<cipherVars, bcfVars, guiVars>>

\* one pass of the loops over a in valid_as and b in range(26)
BFA_Pair ==
    /\ attack = "brute_force_affine_only"
    /\ pc = "loop"
    /\ results' = results \o BfaPairResults(c_clean, valid_as[ia], ib)
    /\ IF ib < 25 THEN ib' = ib + 1 /\ ia' = ia /\ pc' = "loop"
       ELSE IF ia < Len(valid_as) THEN ib' = 0 /\ ia' = ia + 1 /\ pc' = "loop"
       ELSE ib' = ib /\ ia' = ia /\ pc' = "finish"
    /\ UNCHANGED <<cipher, known, c_clean, p_clean, attempts, output>>
    /\ UNCHANGED <<cipherVars, bcfVars, guiVars>>

\* what follows the loops: the sort by score and the 3 first
BFA_Finish ==
    /\ attack = "brute_force_affine_only"
    /\ pc = "finish"
    /\ pc' = "done"
    /\ output' =
           IF results = <<>> THEN Message(NoAffineMsg, 0)
           ELSE [kind |-> "report", msg |-> "BRUTE FORCE AFFINE (PARTIAL DECRYPTION)",
                 found |-> Len(results), attempts |-> 0,
                 solutions |-> Prefix(BcfSort(results), 3)]
    /\ UNCHANGED <<cipher, known, c_clean, p_clean, results, attempts, ia, ib>>
    /\ UNCHANGED <<cipherVars, bcfVars, guiVars>>

\* the calls made: (ciphertext, the top-K passed or 0)
BfaCalls ==
    {<<BOOYY, 0>>, <<BbOO, 0>>, <<RCLLA, 0>>, <<<<49>>, 0>>, <<BOOYY, 1>>}

InitBFA ==
    /\ fn = "" /\ text = <<>> /\ key = <<>> /\ keep = FALSE
    /\ a = 0 /\ b = 0 /\ ret = NoRet
    /\ fn2 = "" /\ key2 = <<>> /\ ret2 = NoRet
    /\ attack = "brute_force_affine_only" /\ max_vig_keylen = 0
    /\ \E call \in BfaCalls : cipher = call[1] /\ top_candidates = call[2]
    /\ known = <<>> /\ pc = "start"
    /\ c_clean = <<>> /\ p_clean = <<>> /\ results = <<>> /\ attempts = 0
    /\ ia = 0 /\ ib = 0 /\ output = NoOutput
    /\ GuiIdle

NextBFA ==
    \/ BFA_Start
    \/ BFA_Pair
    \/ BFA_Finish

\* a call of one of the three breakers
InitBreakers ==
    \/ InitKPA
    \/ InitBCF
    \/ InitBFA

NextBreakers ==
    \/ KPA_Start
    \/ KPA_Pair
    \/ KPA_Finish
    \/ BCF_Start
    \/ BCF_Pair
    \/ BCF_Finish
    \/ BFA_Start
    \/ BFA_Pair
    \/ BFA_Finish

SpecBreakers == InitBreakers /\ [][NextBreakers]_vars

----------------------------------------------------------------------------
(* Properties of the reports of the three breakers *)

ScoreOf(r) == IF "score" \in DOMAIN r THEN r.score ELSE r.english_score

\* (a, b, derived key): brute_force_affine_only derives no key
Identity(r) ==
    <<r.affine_a, r.affine_b,
      IF "vigenere_key" \in DOMAIN r THEN r.vigenere_key ELSE <<>>>>

\* the K of the call: top_candidates of break_combined_frequency, the top-K
\* passed to another breaker, 3 when none is passed
TopK ==
    IF attack = "break_combined_frequency" \/ top_candidates # 0 THEN top_candidates
    ELSE 3

\* scores non-increasing, no (a, b, key) twice, at most TopK reported, and no
\* candidate found that is not reported scores higher than the last reported
OrderedDedupBounded ==
    LET sol == output.solutions
    IN  /\ \A i \in 1..(Len(sol) - 1) : ScoreOf(sol[i]) >= ScoreOf(sol[i + 1])
        /\ \A i \in 1..Len(sol) : \A j \in (i + 1)..Len(sol) :
               Identity(sol[i]) # Identity(sol[j])
        /\ Len(sol) <= TopK
        /\ \A i \in 1..Len(results) :
               \/ \E j \in 1..Len(sol) : Identity(sol[j]) = Identity(results[i])
               \/ ScoreOf(results[i]) <= ScoreOf(sol[Len(sol)])

\* C15: every breaker returns a report for the K its caller asks for, and the
\* report is ordered, deduplicated and bounded to K: scores non-increasing, no two
\* reported candidates with the same (a, b, derived key), at most K reported, and
\* no unreported candidate scoring higher than the last reported.
C15_ReportOrderedBounded ==
    (attack # "" /\ pc = "done") =>
        /\ output.kind # "error"
        /\ output.kind = "report" => OrderedDedupBounded

----------------------------------------------------------------------------
(* The attack tab of main.py: the handlers of its buttons, the worker threads *)
(* of run_attack_in_thread and the callbacks they post to the Tk main loop.   *)
(* What a breaker returns is determined by its cleaned arguments; apart from  *)
(* the messages of the input checks it is kept as the breaker and those       *)
(* arguments.  A breaker raises only when the interpreter fails it            *)
(* (MemoryError); that is a choice of the environment.                        *)

\* the most attacks dispatched in one run
MaxDispatch == 2

\* the characters str.strip() removes, among ASCII
Whitespace == {9, 10, 11, 12, 13, 32}

RECURSIVE LStrip(_)
LStrip(s) == IF s # <<>> /\ Head(s) \in Whitespace THEN LStrip(Tail(s)) ELSE s

RECURSIVE RStrip(_)
RStrip(s) ==
    IF s # <<>> /\ s[Len(s)] \in Whitespace THEN RStrip(SubSeq(s, 1, Len(s) - 1)) ELSE s

\* str.strip()
Strip(s) == RStrip(LStrip(s))

\* "THIS"
THIS == <<84, 72, 73, 83>>

\* what the user may have in the ciphertext field: nothing, a blank, digits,
\* "BOOYY" between blanks
CipherFields == {<<>>, <<32>>, <<49, 50>>, <<32>> \o BOOYY \o <<10>>}

\* what the user may have in the known plaintext entry: nothing, " ab  ", "THIS"
KnownFields == {<<>>, <<32, 97, 98, 32, 32>>, THIS}

\* attack_function(*args) where it returns
AttackResult(target, ciphertext, known_plaintext) ==
    LET ccl == LettersUpper(ciphertext)
        pcl == LettersUpper(known_plaintext)
    IN  IF target = "known_plaintext_attack"
        THEN IF InputCheck(ccl, pcl) # ""
             THEN [kind |-> "text", text |-> InputCheck(ccl, pcl)]
             ELSE [kind |-> "returned", target |-> target, c_clean |-> ccl, p_clean |-> pcl]
        ELSE IF ccl = <<>> THEN [kind |-> "text", text |-> NoAlphaMsg]
             ELSE [kind |-> "returned", target |-> target, c_clean |-> ccl, p_clean |-> <<>>]

\* run_attack_in_thread(attack_function, *args)
run_attack_in_thread(target, ciphertext, known_plaintext) ==
    /\ Len(threads) < MaxDispatch
    /\ progress' = TRUE
    /\ atk_output' = [kind |-> "text", text |-> "Running attack... Please wait..."]
    /\ threads' = Append(threads, [target |-> target, ciphertext |-> ciphertext,
                                   known_plaintext |-> known_plaintext,
                                   state |-> "running", callbacks |-> 0])
    /\ UNCHANGED <<after_queue, messagebox>>

\* messagebox.showinfo(title, message) and the return that follows
ShowInfo(message) ==
    /\ messagebox' = message
    /\ UNCHANGED <<threads, after_queue, progress, atk_output>>

\* the button "Known-plaintext attack"
run_known_plain ==
    /\ attack = ""
    /\ \E field \in CipherFields, entry \in KnownFields :
           IF Strip(field) = <<>> THEN ShowInfo("Please provide ciphertext.")
           ELSE IF Len(Strip(entry)) < 4
                THEN ShowInfo("Known plaintext should be at least 4 characters.")
                ELSE run_attack_in_thread("known_plaintext_attack", Strip(field), Strip(entry))
    /\ UNCHANGED <<cipherVars, kpaVars, bcfVars>>

\* the button "Brute force affine"
run_brute_force_affine ==
    /\ attack = ""
    /\ \E field \in CipherFields :
           IF Strip(field) = <<>>
           THEN ShowInfo("Please paste ciphertext into the field above.")
           ELSE run_attack_in_thread("brute_force_affine_only", Strip(field), <<>>)
    /\ UNCHANGED <<cipherVars, kpaVars, bcfVars>>

\* the button "Frequency attack"
run_break_combined ==
    /\ attack = ""
    /\ \E field \in CipherFields :
           IF Strip(field) = <<>>
           THEN ShowInfo("Please paste ciphertext into the field above.")
           ELSE run_attack_in_thread("break_combined_frequency", Strip(field), <<>>)
    /\ UNCHANGED <<cipherVars, kpaVars, bcfVars>>

\* attack_wrapper of thread n: attack_function returns and attack_complete is posted
attack_wrapper_returns ==
    /\ \E n \in 1..Len(threads) :
           /\ threads[n].state = "running"
           /\ threads' = [threads EXCEPT ![n].state = "posted"]
           /\ after_queue' = Append(after_queue,
                  [callback |-> "attack_complete", thread |-> n,
                   arg |-> AttackResult(threads[n].target, threads[n].ciphertext,
                                        threads[n].known_plaintext)])
    /\ UNCHANGED <<progress, atk_output, messagebox>>
    /\ UNCHANGED <<cipherVars, kpaVars, bcfVars>>

\* attack_wrapper of thread n: attack_function raises and attack_error is posted
attack_wrapper_raises ==
    /\ \E n \in 1..Len(threads) :
           /\ threads[n].state = "running"
           /\ threads' = [threads EXCEPT ![n].state = "posted"]
           /\ after_queue' = Append(after_queue,
                  [callback |-> "attack_error", thread |-> n,
                   arg |-> [kind |-> "text", text |-> "MemoryError"]])
    /\ UNCHANGED <<progress, atk_output, messagebox>>
    /\ UNCHANGED <<cipherVars, kpaVars, bcfVars>>

\* the main loop runs the oldest callback: attack_complete(result)
attack_complete ==
    /\ after_queue # <<>>
    /\ Head(after_queue).callback = "attack_complete"
    /\ progress' = FALSE
    /\ atk_output' = Head(after_queue).arg
    /\ after_queue' = Tail(after_queue)
    /\ threads' = [threads EXCEPT ![Head(after_queue).thread].state = "delivered",
                                  ![Head(after_queue).thread].callbacks = @ + 1]
    /\ UNCHANGED messagebox
    /\ UNCHANGED <<cipherVars, kpaVars, bcfVars>>

\* the main loop runs the oldest callback: attack_error(error_msg)
attack_error ==
    /\ after_queue # <<>>
    /\ Head(after_queue).callback = "attack_error"
    /\ progress' = FALSE
    /\ atk_output' = [kind |-> "error", text |-> Head(after_queue).arg.text]
    /\ after_queue' = Tail(after_queue)
    /\ threads' = [threads EXCEPT ![Head(after_queue).thread].state = "delivered",
                                  ![Head(after_queue).thread].callbacks = @ + 1]
    /\ UNCHANGED messagebox
    /\ UNCHANGED <<cipherVars, kpaVars, bcfVars>>

NextGUI ==
    \/ run_known_plain
    \/ run_brute_force_affine
    \/ run_break_combined
    \/ attack_wrapper_returns
    \/ attack_wrapper_raises
    \/ attack_complete
    \/ attack_error

SpecGUI == Init /\ [][NextGUI]_vars

----------------------------------------------------------------------------
(* Properties of the dispatch of attacks *)

\* what the output field shows for the callback thread n delivered
Shown(n) ==
    LET returned == AttackResult(threads[n].target, threads[n].ciphertext,
                                 threads[n].known_plaintext)
    IN  {returned, [kind |-> "error", text |-> "MemoryError"]}

\* C16: whatever the sequence of dispatches, a second one while an earlier attack
\* runs included: no attack delivers more than one of attack_complete and
\* attack_error, and a delivered one exactly one; once every dispatched attack has
\* delivered, the output shows the outcome of the most recently dispatched one;
\* and the progress bar runs whenever an attack is still running.
C16_DispatchedAttacks ==
    /\ \A n \in 1..Len(threads) :
           /\ threads[n].callbacks <= 1
           /\ threads[n].state = "delivered" <=> threads[n].callbacks = 1
    /\ (threads # <<>> /\ \A n \in 1..Len(threads) : threads[n].state = "delivered")
           => atk_output \in Shown(Len(threads))
    /\ (\E n \in 1..Len(threads) : threads[n].state = "running") => progress

\* the output keeps the result of an attack dispatched before the last one
OlderResultShown ==
    /\ Len(threads) = 2 /\ \A n \in 1..2 : threads[n].state = "delivered"
    /\ atk_output \notin Shown(2)

\* the progress bar is stopped while an attack runs
StoppedWhileRunning ==
    /\ \E n \in 1..Len(threads) : threads[n].state = "running"
    /\ ~progress

====
